---- MODULE Spec2Model ----
(***************************************************************************)
(* Route and dispatcher selection of go-restful (jsr311.go).               *)
(*                                                                         *)
(* A string is a sequence of one-character strings.  A template is turned  *)
(* into the text of a regular expression (templateToRegularExpression),    *)
(* the text is compiled (regexp.Compile) and searched for in the path      *)
(* (FindStringSubmatch: unanchored, leftmost match, first alternative in   *)
(* priority order).  Owners (routes, dispatchers) are identified by their  *)
(* position in the list handed to the selector.  What log.Printf writes    *)
(* is not part of the state.                                               *)
(***************************************************************************)
EXTENDS Integers, Sequences, FiniteSets, TLC

VARIABLES
    templates,   \* relativePath of each route / RootPath of each dispatcher
    path,        \* the remainder (selectRoutes) or request path (detectDispatcher)
    op,          \* the operation that produced the outputs below
    candidates,  \* filtered.candidates as left by sort.Sort
    routesOut,   \* selectRoutes: the routes returned, by position in the list
    dispOut,     \* detectDispatcher: the dispatcher returned (0 is nil)
    finalOut,    \* detectDispatcher: the remainder returned
    err,         \* TRUE when the operation returned errors.New("not found")
    cmp          \* the arguments and the result of the last Less call

vars == <<templates, path, op, candidates, routesOut, dispOut, finalOut, err, cmp>>

----------------------------------------------------------------------------
(* Bounds of the model *)

MaxSegs == 2

MaxPathSegs == 3

MaxOwners == 2

MaxCount == 2

----------------------------------------------------------------------------
(* Strings *)

RECURSIVE Concat(_)
Concat(ss) == IF ss = <<>> THEN <<>> ELSE Head(ss) \o Concat(Tail(ss))

HasPrefix(s, p) == Len(s) >= Len(p) /\ SubSeq(s, 1, Len(p)) = p

\* strings.Split(s, "/"): the pieces between the separators, empty ones kept.
RECURSIVE SplitFrom(_, _, _)
SplitFrom(s, i, cur) ==
    IF i > Len(s) THEN <<cur>>
    ELSE IF s[i] = "/" THEN <<cur>> \o SplitFrom(s, i + 1, <<>>)
    ELSE SplitFrom(s, i + 1, Append(cur, s[i]))

Split(s) == SplitFrom(s, 1, <<>>)

\* strings.TrimRight(s, "/")
RECURSIVE TrimRight(_)
TrimRight(s) ==
    IF s # <<>> /\ s[Len(s)] = "/" THEN TrimRight(SubSeq(s, 1, Len(s) - 1)) ELSE s

\* The characters regexp.QuoteMeta escapes.
Special == {"\\", ".", "+", "*", "?", "(", ")", "|", "[", "]", "{", "}", "^", "$"}

RECURSIVE QuoteMeta(_)
QuoteMeta(s) ==
    IF s = <<>> THEN <<>>
    ELSE (IF Head(s) \in Special THEN <<"\\", Head(s)>> ELSE <<Head(s)>>)
         \o QuoteMeta(Tail(s))

----------------------------------------------------------------------------
(* templateToRegularExpression *)

VarGroup == <<"(", "[", "^", "/", "]", "+", "?", ")">>

RemGroup == <<"(", "/", ".", "*", ")", "?">>

\* The loop over the tokens: acc is (buffer, literalCount, varCount).
RECURSIVE CompileTokens(_, _)
CompileTokens(tokens, acc) ==
    IF tokens = <<>> THEN acc
    ELSE LET each == Head(tokens) IN
         IF each = <<>> THEN CompileTokens(Tail(tokens), acc)
         ELSE IF HasPrefix(each, <<"{">>)
         THEN CompileTokens(Tail(tokens),
                  [buffer |-> acc.buffer \o <<"/">> \o VarGroup,
                   literalCount |-> acc.literalCount,
                   varCount |-> acc.varCount + 1])
         ELSE CompileTokens(Tail(tokens),
                  [buffer |-> acc.buffer \o <<"/">> \o QuoteMeta(each),
                   literalCount |-> acc.literalCount + Len(each),
                   varCount |-> acc.varCount])

\* A conversion that never counts a variable.
templateToRegularExpressionNoVarCount(template) ==
    LET r == CompileTokens(Split(template),
                 [buffer |-> <<>>, literalCount |-> 0, varCount |-> 0])
    IN [expression |-> TrimRight(r.buffer) \o RemGroup,
        literalCount |-> r.literalCount,
        varCount |-> 0]

templateToRegularExpression(template) ==
    LET r == CompileTokens(Split(template),
                 [buffer |-> <<>>, literalCount |-> 0, varCount |-> 0])
    IN [expression |-> TrimRight(r.buffer) \o RemGroup,
        literalCount |-> r.literalCount,
        varCount |-> r.varCount]

----------------------------------------------------------------------------
(* regexp.Compile, for the expressions the templates give rise to: escaped  *)
(* and plain characters, the dot, the variable group and the remainder      *)
(* group.  Any other use of a special character is a compile error.         *)

RECURSIVE Parse(_, _)
Parse(e, i) ==
    IF i > Len(e) THEN [ok |-> TRUE, prog |-> <<>>]
    ELSE LET step(tok, n) ==
                 LET rest == Parse(e, i + n)
                 IN [ok |-> rest.ok, prog |-> <<tok>> \o rest.prog]
         IN IF e[i] = "\\"
            THEN IF i + 1 <= Len(e) THEN step([kind |-> "lit", ch |-> e[i + 1]], 2)
                 ELSE [ok |-> FALSE, prog |-> <<>>]
            ELSE IF HasPrefix(SubSeq(e, i, Len(e)), VarGroup)
            THEN step([kind |-> "var", ch |-> ""], Len(VarGroup))
            ELSE IF HasPrefix(SubSeq(e, i, Len(e)), RemGroup)
            THEN step([kind |-> "rem", ch |-> ""], Len(RemGroup))
            ELSE IF e[i] = "."
            THEN step([kind |-> "any", ch |-> ""], 1)
            ELSE IF e[i] \in Special
            THEN [ok |-> FALSE, prog |-> <<>>]
            ELSE step([kind |-> "lit", ch |-> e[i]], 1)

Compile(expression) == Parse(expression, 1)

NoMatch == [ok |-> FALSE, groups |-> <<>>, end |-> 0]

\* The match of prog[k..] at position pos of s that the backtracking search
\* finds first: the groups captured from there on and the end of the match.
RECURSIVE MatchFrom(_, _, _, _), LazyVar(_, _, _, _, _), GreedyRem(_, _, _, _, _)
MatchFrom(prog, k, s, pos) ==
    IF k > Len(prog) THEN [ok |-> TRUE, groups |-> <<>>, end |-> pos]
    ELSE LET tok == prog[k] IN
         CASE tok.kind = "lit" ->
                 IF pos <= Len(s) /\ s[pos] = tok.ch
                 THEN MatchFrom(prog, k + 1, s, pos + 1) ELSE NoMatch
           [] tok.kind = "any" ->
                 IF pos <= Len(s) THEN MatchFrom(prog, k + 1, s, pos + 1) ELSE NoMatch
           [] tok.kind = "var" -> LazyVar(prog, k, s, pos, 1)
           [] tok.kind = "rem" ->
                 IF pos <= Len(s) /\ s[pos] = "/"
                 THEN GreedyRem(prog, k, s, pos, Len(s) + 1)
                 ELSE LET rest == MatchFrom(prog, k + 1, s, pos)
                      IN IF rest.ok
                         THEN [rest EXCEPT !.groups = <<<<>>>> \o rest.groups]
                         ELSE NoMatch

\* ([^/]+?): one or more characters other than "/", the fewest first.
LazyVar(prog, k, s, pos, n) ==
    IF pos + n - 1 > Len(s) \/ s[pos + n - 1] = "/" THEN NoMatch
    ELSE LET rest == MatchFrom(prog, k + 1, s, pos + n)
         IN IF rest.ok
            THEN [rest EXCEPT !.groups = <<SubSeq(s, pos, pos + n - 1)>> \o rest.groups]
            ELSE LazyVar(prog, k, s, pos, n + 1)

\* (/.*)?: a "/" and then as many characters as possible, the most first; the
\* group left out (captured as "") when no such match leads to a match.
GreedyRem(prog, k, s, pos, stop) ==
    IF stop <= pos
    THEN LET rest == MatchFrom(prog, k + 1, s, pos)
         IN IF rest.ok THEN [rest EXCEPT !.groups = <<<<>>>> \o rest.groups]
            ELSE NoMatch
    ELSE LET rest == MatchFrom(prog, k + 1, s, stop)
         IN IF rest.ok
            THEN [rest EXCEPT !.groups = <<SubSeq(s, pos, stop - 1)>> \o rest.groups]
            ELSE GreedyRem(prog, k, s, pos, stop - 1)

\* compiled.FindStringSubmatch(s): the leftmost match; <<>> stands for nil,
\* otherwise the whole match followed by the capture groups.
RECURSIVE FindFrom(_, _, _)
FindFrom(prog, s, start) ==
    IF start > Len(s) + 1 THEN <<>>
    ELSE LET m == MatchFrom(prog, 1, s, start)
         IN IF m.ok THEN <<SubSeq(s, start, m.end - 1)>> \o m.groups
            ELSE FindFrom(prog, s, start + 1)

FindStringSubmatch(prog, s) == FindFrom(prog, s, 1)

----------------------------------------------------------------------------
(* The inputs: templates and paths built from a few segments, and those   *)
(* of the documented examples                                              *)

TemplateSegs == {<<"a">>, <<"{", "x", "}">>}

PathSegs == {<<"a">>, <<"b">>, <<"a", "b">>}

SeqsUpTo(S, n) == UNION {[1..k -> S] : k \in 0..n}

Join(segs) == Concat([i \in 1..Len(segs) |-> <<"/">> \o segs[i]])

Templates == {Join(segs) : segs \in SeqsUpTo(TemplateSegs, MaxSegs)}

Paths == {Join(segs) \o tail :
             segs \in SeqsUpTo(PathSegs, MaxPathSegs), tail \in {<<>>, <<"/">>}}

T_a_var == <<"/", "a", "/", "{", "v", "a", "r", "}">>

T_a_b == <<"/", "a", "/", "b">>

T_x_y == <<"/", "{", "x", "}", "/", "{", "y", "}">>

T_a_y == <<"/", "a", "/", "{", "y", "}">>

T_a_x == <<"/", "a", "/", "{", "x", "}">>

T_x_a == <<"/", "x", "/", "{", "a", "}">>

T_x_a_b == <<"/", "x", "/", "{", "a", "}", "/", "{", "b", "}">>

\* Literal segments with characters that are special in an expression.
T_a_dot_b == <<"/", "a", ".", "b">>

T_paren == <<"/", "(", "a", ")">>

P_a_b == <<"/", "a", "/", "b">>

P_a_z == <<"/", "a", "/", "z">>

P_a_1 == <<"/", "a", "/", "1">>

P_x_y_z == <<"/", "x", "/", "y", "/", "z">>

P_a_dot_b == <<"/", "a", ".", "b">>

P_aXb == <<"/", "a", "X", "b">>

P_paren == <<"/", "(", "a", ")">>

TestTemplates ==
    {T_a_var, T_a_b, T_x_y, T_a_y, T_a_x, T_x_a, T_x_a_b, T_a_dot_b, T_paren}

TestPaths ==
    {<<>>, <<"/">>, P_a_b, P_a_z, P_a_1, P_x_y_z, P_a_dot_b, P_aXb, P_paren}

----------------------------------------------------------------------------
(* The head of both loops: the template's expression and counts, whether   *)
(* the expression compiles, and the submatches found in the path.          *)

tryTemplate(template, s) ==
    LET t == templateToRegularExpression(template)
        compiled == Compile(t.expression)
    IN [expression |-> t.expression,
        literalCount |-> t.literalCount,
        varCount |-> t.varCount,
        invalid |-> ~compiled.ok,
        matches |-> IF compiled.ok THEN FindStringSubmatch(compiled.prog, s)
                    ELSE <<>>]

\* tryTemplate, worked out once for every template and path of the inputs.
Tried ==
    [template \in Templates \cup TestTemplates |->
        [s \in Paths \cup TestPaths |-> tryTemplate(template, s)]]

----------------------------------------------------------------------------
(* The candidates and their order *)

\* A comparator that leaves out the secondary key.
sortableRouteCandidates_LessNoLiteral(cj, ci) ==
    IF ci.matchesCount < cj.matchesCount THEN TRUE
    ELSE IF ci.matchesCount > cj.matchesCount THEN FALSE
    ELSE ci.nonDefaultCount < cj.nonDefaultCount

\* sortableRouteCandidates.Less(j, i), with cj = candidates[j] and ci = candidates[i]
sortableRouteCandidates_Less(cj, ci) ==
    IF ci.matchesCount < cj.matchesCount THEN TRUE
    ELSE IF ci.matchesCount > cj.matchesCount THEN FALSE
    ELSE IF ci.literalCount < cj.literalCount THEN TRUE
    ELSE IF ci.literalCount > cj.literalCount THEN FALSE
    ELSE ci.nonDefaultCount < cj.nonDefaultCount

\* sortableCandidates.Less(j, i), with cj = candidates[j] and ci = candidates[i]
sortableCandidates_Less(cj, ci) ==
    IF ci.matchesCount < cj.matchesCount THEN TRUE
    ELSE IF ci.matchesCount > cj.matchesCount THEN FALSE
    ELSE IF ci.literalCount < cj.literalCount THEN TRUE
    ELSE IF ci.literalCount > cj.literalCount THEN FALSE
    ELSE ci.nonDefaultCount < cj.nonDefaultCount

Perms(n) == {p \in [1..n -> 1..n] : \A i, j \in 1..n : p[i] = p[j] => i = j}

\* A sort that leaves the candidates as they were appended.
sortableRouteCandidates_Unsorted(cs) == {cs}

\* sort.Sort(filtered): some arrangement of the candidates in which no
\* element is Less than an earlier one; the sort is not stable, so every such
\* arrangement is a possible outcome.
sortableRouteCandidates_Sort(cs) ==
    {[i \in 1..Len(cs) |-> cs[p[i]]] : p \in
        {q \in Perms(Len(cs)) :
            \A i, j \in 1..Len(cs) :
                i < j => ~sortableRouteCandidates_Less(cs[q[j]], cs[q[i]])}}

sortableCandidates_Sort(cs) ==
    {[i \in 1..Len(cs) |-> cs[p[i]]] : p \in
        {q \in Perms(Len(cs)) :
            \A i, j \in 1..Len(cs) :
                i < j => ~sortableCandidates_Less(cs[q[j]], cs[q[i]])}}

----------------------------------------------------------------------------
(* selectRoutes *)

\* A test that leaves out the "/".
EmptyOnly(final) == final = <<>>

\* final == "" || final == "/"
EmptyOrSlash(final) == final = <<>> \/ final = <<"/">>

\* One turn of the loop over dispatcher.Routes(): the candidate route number
\* n gives rise to, if any.
routeCandidate(n, relativePath, final) ==
    LET t == Tried[relativePath][final]
        matches == t.matches
    IN IF t.invalid THEN <<>>
       ELSE IF matches # <<>> /\ EmptyOrSlash(matches[Len(matches)])
       THEN <<[owner |-> n,
               regexpression |-> t.expression,
               matchesCount |-> Len(matches),
               literalCount |-> t.literalCount,
               nonDefaultCount |-> t.varCount]>>
       ELSE <<>>

RECURSIVE filteredRoutes(_, _, _)
filteredRoutes(routes, final, n) ==
    IF n > Len(routes) THEN <<>>
    ELSE routeCandidate(n, routes[n], final) \o filteredRoutes(routes, final, n + 1)

\* A selection that returns the first candidate alone.
firstRouteOnly(cs, rmatch) == IF cs = <<>> THEN <<>> ELSE <<Head(cs).owner>>

\* The loop that selects the routes whose expression is that of the first.
RECURSIVE matchingRoutes(_, _)
matchingRoutes(cs, rmatch) ==
    IF cs = <<>> THEN <<>>
    ELSE (IF Head(cs).regexpression = rmatch THEN <<Head(cs).owner>> ELSE <<>>)
         \o matchingRoutes(Tail(cs), rmatch)

SelectRoutes ==
    /\ op = "init"
    /\ op' = "selectRoutes"
    /\ IF EmptyOrSlash(path)
       THEN /\ routesOut' = [n \in 1..Len(templates) |-> n]
            /\ err' = FALSE
            /\ candidates' = <<>>
       ELSE LET filtered == filteredRoutes(templates, path, 1)
            IN IF Len(filtered) = 0
               THEN /\ routesOut' = <<>>
                    /\ err' = TRUE
                    /\ candidates' = <<>>
               ELSE \E sorted \in sortableRouteCandidates_Sort(filtered) :
                        /\ candidates' = sorted
                        /\ routesOut' = matchingRoutes(sorted, sorted[1].regexpression)
                        /\ err' = FALSE
    /\ UNCHANGED <<templates, path, dispOut, finalOut, cmp>>

----------------------------------------------------------------------------
(* detectDispatcher *)

\* A turn that, as for routes, accepts only a remainder of "" or "/".
dispatcherCandidateWholePath(n, rootPath, requestPath) ==
    LET t == Tried[rootPath][requestPath]
        matches == t.matches
    IN IF ~t.invalid /\ matches # <<>> /\ EmptyOrSlash(matches[Len(matches)])
       THEN <<[owner |-> n,
               finalMatch |-> matches[Len(matches)],
               matchesCount |-> Len(matches),
               literalCount |-> t.literalCount,
               nonDefaultCount |-> t.varCount]>>
       ELSE <<>>

\* One turn of the loop over the dispatchers.
dispatcherCandidate(n, rootPath, requestPath) ==
    LET t == Tried[rootPath][requestPath]
        matches == t.matches
    IN IF t.invalid THEN <<>>
       ELSE IF matches # <<>>
       THEN <<[owner |-> n,
               finalMatch |-> matches[Len(matches)],
               matchesCount |-> Len(matches),
               literalCount |-> t.literalCount,
               nonDefaultCount |-> t.varCount]>>
       ELSE <<>>

RECURSIVE filteredDispatchers(_, _, _)
filteredDispatchers(dispatchers, requestPath, n) ==
    IF n > Len(dispatchers) THEN <<>>
    ELSE dispatcherCandidate(n, dispatchers[n], requestPath)
         \o filteredDispatchers(dispatchers, requestPath, n + 1)

DetectDispatcher ==
    /\ op = "init"
    /\ op' = "detectDispatcher"
    /\ LET filtered == filteredDispatchers(templates, path, 1)
       IN IF Len(filtered) = 0
          THEN /\ dispOut' = 0
               /\ finalOut' = <<>>
               /\ err' = TRUE
               /\ candidates' = <<>>
          ELSE \E sorted \in sortableCandidates_Sort(filtered) :
                   /\ candidates' = sorted
                   /\ dispOut' = sorted[1].owner
                   /\ finalOut' = sorted[1].finalMatch
                   /\ err' = FALSE
    /\ UNCHANGED <<templates, path, routesOut, cmp>>

----------------------------------------------------------------------------
(* The specifications *)

NoCmp == [called |-> "none"]

Fresh ==
    /\ op = "init"
    /\ candidates = <<>>
    /\ routesOut = <<>>
    /\ dispOut = 0
    /\ finalOut = <<>>
    /\ err = FALSE
    /\ cmp = NoCmp

\* The owners' templates and the path: built from the segments above, or
\* taken from the documented examples.
Init ==
    /\ \/ /\ templates \in SeqsUpTo(Templates, MaxOwners)
          /\ path \in Paths
       \/ /\ templates \in SeqsUpTo(TestTemplates, MaxOwners)
          /\ path \in TestPaths
    /\ Fresh

Next == SelectRoutes \/ DetectDispatcher

Spec == Init /\ [][Next]_vars

----------------------------------------------------------------------------
(* The comparators on their own: sort.Sort may call Less on any two        *)
(* candidates.                                                             *)

Keys == [matchesCount : 0..MaxCount, literalCount : 0..MaxCount,
         nonDefaultCount : 0..MaxCount]

RouteLess ==
    /\ op = "init"
    /\ \E cj, ci \in Keys :
           cmp' = [called |-> "sortableRouteCandidates", j |-> cj, i |-> ci,
                   less |-> sortableRouteCandidates_Less(cj, ci)]
    /\ op' = "Less"
    /\ UNCHANGED <<templates, path, candidates, routesOut, dispOut, finalOut, err>>

DispatcherLess ==
    /\ op = "init"
    /\ \E cj, ci \in Keys :
           cmp' = [called |-> "sortableCandidates", j |-> cj, i |-> ci,
                   less |-> sortableCandidates_Less(cj, ci)]
    /\ op' = "Less"
    /\ UNCHANGED <<templates, path, candidates, routesOut, dispOut, finalOut, err>>

InitLess ==
    /\ templates = <<>>
    /\ path = <<>>
    /\ Fresh

NextLess == RouteLess \/ DispatcherLess

SpecLess == InitLess /\ [][NextLess]_vars

----------------------------------------------------------------------------
(* What the selectors are expected to do, stated on segments                *)

NonEmptySegs(s) == SelectSeq(Split(s), LAMBDA seg : seg # <<>>)

IsVarSeg(seg) == seg # <<>> /\ seg[1] = "{"

\* The path segments correspond one to one, in order, to the template's: a
\* literal equals the whole segment, a variable covers a whole non-empty one.
SegsCorrespond(tsegs, psegs) ==
    /\ Len(tsegs) = Len(psegs)
    /\ \A i \in 1..Len(tsegs) :
           /\ psegs[i] # <<>>
           /\ IsVarSeg(tsegs[i]) \/ tsegs[i] = psegs[i]

\* c is the template matched segment for segment from its first character.
TemplateCovers(template, c) ==
    IF c = <<>> THEN NonEmptySegs(template) = <<>>
    ELSE c[1] = "/" /\ SegsCorrespond(NonEmptySegs(template), Tail(Split(c)))

\* The template consumes all of r but for at most one trailing "/".
FullyConsumes(template, r) ==
    \/ TemplateCovers(template, r)
    \/ /\ r # <<>>
       /\ r[Len(r)] = "/"
       /\ TemplateCovers(template, SubSeq(r, 1, Len(r) - 1))

Range(f) == {f[i] : i \in DOMAIN f}

ShortCircuited == path = <<>> \/ path = <<"/">>

RoutesSelected == op = "selectRoutes" /\ ~ShortCircuited

\* What owner n's template gives for the path: its compiled pattern, the
\* submatches found and the three counts.
Row(n) ==
    LET t == Tried[templates[n]][path]
    IN [owner |-> n,
        regexpression |-> t.expression,
        matches |-> t.matches,
        matchesCount |-> Len(t.matches),
        literalCount |-> t.literalCount,
        nonDefaultCount |-> t.varCount]

Rows == {Row(n) : n \in 1..Len(templates)}

\* The dispatchers whose root template matches the path.
DispRows == {r \in Rows : r.matches # <<>>}

\* The routes that are candidates: the last group captured is "" or "/".
RouteRows ==
    {r \in DispRows : r.matches[Len(r.matches)] \in {<<>>, <<"/">>}}

\* a outranks b: greater matchesCount, then greater literalCount, then
\* greater nonDefaultCount.
Outranks(a, b) ==
    \/ a.matchesCount > b.matchesCount
    \/ /\ a.matchesCount = b.matchesCount
       /\ \/ a.literalCount > b.literalCount
          \/ /\ a.literalCount = b.literalCount
             /\ a.nonDefaultCount > b.nonDefaultCount

\* The rows of S that no row of S outranks.
Best(S) == {r \in S : \A c \in S : ~Outranks(c, r)}

Owners(S) == {r.owner : r \in S}

SamePattern(S) == \A q, r \in S : q.regexpression = r.regexpression

----------------------------------------------------------------------------
(* The claims *)

\* C1: for a remainder other than "" and "/", every route selectRoutes
\* returns has a template that consumes the whole remainder, segment for
\* segment from its first character, but for at most one trailing "/".
C1_ReturnedRoutesConsumeRemainder ==
    RoutesSelected =>
        \A k \in 1..Len(routesOut) : FullyConsumes(templates[routesOut[k]], path)

\* C2: with the routes /a/{var} and /a/b, in either order, and the remainder
\* /a/b, selectRoutes returns /a/b and does not return /a/{var}.
C2_LiteralRoutePreferred ==
    (/\ op = "selectRoutes"
     /\ path = P_a_b
     /\ templates \in {<<T_a_var, T_a_b>>, <<T_a_b, T_a_var>>})
    => {templates[n] : n \in Range(routesOut)} = {T_a_b}

\* C3: with the routes /{x}/{y} and /a/{y}, in either order, and the
\* remainder /a/z, selectRoutes returns /a/{y} and does not return /{x}/{y}.
C3_FewerVariablesPreferred ==
    (/\ op = "selectRoutes"
     /\ path = P_a_z
     /\ templates \in {<<T_x_y, T_a_y>>, <<T_a_y, T_x_y>>})
    => {templates[n] : n \in Range(routesOut)} = {T_a_y}

\* C4: the remainder detectDispatcher returns is the suffix of the request
\* path left after a prefix that matches the dispatcher's root template
\* segment for segment, and it is empty or begins with "/".
C4_RemainderIsUnconsumedSuffix ==
    (op = "detectDispatcher" /\ ~err) =>
        /\ Len(finalOut) <= Len(path)
        /\ SubSeq(path, Len(path) - Len(finalOut) + 1, Len(path)) = finalOut
        /\ TemplateCovers(templates[dispOut],
                          SubSeq(path, 1, Len(path) - Len(finalOut)))
        /\ finalOut = <<>> \/ finalOut[1] = "/"

\* C5: for a remainder other than "" and "/" with at least one candidate,
\* selectRoutes returns, each once, exactly the candidate routes whose
\* compiled pattern is that of a candidate no other candidate outranks; two
\* candidates with the same compiled pattern are both returned or both absent.
C5_BestPatternGroupReturned ==
    LET rows == RouteRows
        out == Range(routesOut)
    IN (RoutesSelected /\ rows # {}) =>
        /\ \E b \in Best(rows) :
               out = Owners({r \in rows : r.regexpression = b.regexpression})
        /\ Len(routesOut) = Cardinality(out)
        /\ \A q, r \in rows :
               q.regexpression = r.regexpression
                   => (q.owner \in out <=> r.owner \in out)

\* The routes /a/{x} and /a/{y}, of one compiled pattern, returned together
\* for the remainder /a/1.
C5_Witness ==
    /\ RoutesSelected
    /\ templates = <<T_a_x, T_a_y>>
    /\ path = P_a_1
    /\ Range(routesOut) = {1, 2}

\* C6: for the remainder "" or "/", selectRoutes returns every route of the
\* dispatcher in the dispatcher's order, without an error and without
\* building candidates, whatever the templates are.
C6_ShortCircuitReturnsAllRoutes ==
    (op = "selectRoutes" /\ ShortCircuited) =>
        /\ routesOut = [n \in 1..Len(templates) |-> n]
        /\ ~err
        /\ candidates = <<>>

\* The remainder "/" with two routes of which neither would be a candidate.
C6_Witness ==
    /\ op = "selectRoutes"
    /\ path = <<"/">>
    /\ Len(templates) = 2
    /\ routesOut = <<1, 2>>
    /\ RouteRows = {}

\* C7: detectDispatcher returns not-found, with no dispatcher and an empty
\* remainder, exactly when no root template matches the request path, and
\* otherwise a dispatcher of the list; selectRoutes, for a remainder other
\* than "" and "/", returns not-found with no routes exactly when no route is
\* a candidate, and otherwise a non-empty list of routes of the dispatcher.
C7_NotFoundExactlyWhenNoCandidate ==
    /\ op = "detectDispatcher" =>
           /\ err <=> DispRows = {}
           /\ err => dispOut = 0 /\ finalOut = <<>>
           /\ ~err => dispOut \in 1..Len(templates)
    /\ RoutesSelected =>
           /\ err <=> RouteRows = {}
           /\ err => routesOut = <<>>
           /\ ~err => routesOut # <<>> /\ Range(routesOut) \subseteq 1..Len(templates)

\* selectRoutes fails on two routes whose templates match the remainder only
\* in part, which detectDispatcher would accept.
C7_Witness ==
    /\ RoutesSelected
    /\ err
    /\ Len(templates) = 2
    /\ Cardinality(DispRows) = 2

C9_NoTieBetweenDifferentPatterns ==
    /\ (RoutesSelected /\ ~err) => SamePattern(Best(RouteRows))
    /\ (op = "detectDispatcher" /\ ~err) => SamePattern(Best(DispRows))

\* C9 amended: the rank of what is returned is determined, and no more: the
\* dispatcher returned and every route returned is a candidate no other
\* candidate outranks; when the candidates of best rank all have one
\* compiled pattern, the routes returned are exactly those and the remainder
\* returned is theirs, and when a single dispatcher has best rank it is the
\* one returned.  Candidates with different patterns can tie for best rank.
C9_ResultHasBestRank ==
    /\ (RoutesSelected /\ ~err) =>
           LET best == Best(RouteRows)
           IN /\ Range(routesOut) \subseteq Owners(best)
              /\ SamePattern(best) => Range(routesOut) = Owners(best)
    /\ (op = "detectDispatcher" /\ ~err) =>
           LET best == Best(DispRows)
           IN /\ \E r \in best :
                     dispOut = r.owner /\ finalOut = r.matches[Len(r.matches)]
              /\ SamePattern(best) =>
                     \A r \in best : finalOut = r.matches[Len(r.matches)]
              /\ Cardinality(best) = 1 => Owners(best) = {dispOut}

\* Two routes of different patterns tie for best rank and one is returned.
C9_Witness ==
    /\ RoutesSelected
    /\ Cardinality(Best(RouteRows)) = 2
    /\ ~SamePattern(Best(RouteRows))
    /\ Len(routesOut) = 1

VarSegCount(template) ==
    Len(SelectSeq(NonEmptySegs(template), LAMBDA seg : seg[1] = "{"))

\* C10: every candidate of selectRoutes and of detectDispatcher has
\* matchesCount = varCount + 2, varCount being the number of variable
\* segments of its template; so candidates equal in matchesCount are equal
\* in varCount, and of two candidates with different numbers of variable
\* segments the comparator puts the one with more first.
C10_MatchesCountIsVarCountPlusTwo ==
    op \in {"selectRoutes", "detectDispatcher"} =>
        /\ \A k \in 1..Len(candidates) :
               /\ candidates[k].nonDefaultCount = VarSegCount(templates[candidates[k].owner])
               /\ candidates[k].matchesCount = candidates[k].nonDefaultCount + 2
        /\ \A k, l \in 1..Len(candidates) :
               /\ candidates[k].matchesCount = candidates[l].matchesCount
                      => candidates[k].nonDefaultCount = candidates[l].nonDefaultCount
               /\ candidates[k].nonDefaultCount > candidates[l].nonDefaultCount
                      => k < l

\* Two candidates with different numbers of variable segments.
C10_Witness ==
    /\ op = "selectRoutes"
    /\ Len(candidates) = 2
    /\ candidates[1].nonDefaultCount = 2
    /\ candidates[2].nonDefaultCount = 0

====
